---- MODULE Spec2Model ----
(***************************************************************************)
(* Model of the scripts of pose-ckanext-metadata: the time-series appender *)
(* (extensions-workflow/timeseries_append.py), the concurrent              *)
(* site-statistics extractor (sites-workflow/2CKANActionAPI.py), the two   *)
(* catalog updaters (3updateCatalog.py, sites-workflow/                    *)
(* 3updateSitesCatalog.py), the metadata refresher (2refresh.py) and the   *)
(* sites appender (sites-workflow/datapump.py).  Each script has its own   *)
(* specification; one script runs at a time, named by the variable script. *)
(*                                                                         *)
(* A DataFrame is a record [columns, index, rows]: the set of its column   *)
(* names, the sequence of its index labels and the sequence of its rows,   *)
(* each row a function from the columns to cell values.  Cell values are   *)
(* text; NaN stands for pandas' missing value (NaN / None / JSON null).    *)
(* Metric columns (stars, forks_count, ...) are never read by the code     *)
(* modelled here and are left out of the rows.                             *)
(***************************************************************************)
EXTENDS Integers, Sequences, FiniteSets, TLC

VARIABLES
    strictFormat,   \* pandas build: to_datetime(format=...) matches the format exactly (pandas >= 2.0) or accepts any ISO 8601 text (pandas 1.x)
    new_df,         \* filter_duplicates: the batch argument (mutated in place by the call)
    existing_df,    \* filter_duplicates: the existing-table argument (mutated in place by the call)
    fd_in,          \* the arguments as they were when filter_duplicates was called
    fd_out,         \* the pair filter_duplicates returned
    fd_pc,          \* "off" | "call" | "returned"
    resource,       \* remote catalog: "missing" | "no_datastore" | "active"
    tableKey,       \* remote table: TRUE when it was created with a primary key on the identity columns
    table,          \* remote table: the stored records, in insertion order
    extraResources, \* remote catalog: resources of the same name created beside an existing one
    pc,             \* position of main() of the running script
    csvFile,        \* the content of CSV_FILE_PATH read by the current run
    csv,            \* df: the DataFrame main() read from the file
    resource_info,  \* what get_resource_info returned: "none" | "no_datastore" | "active"
    pending,        \* [truly_new, duplicates]: what filter_duplicates returned to append_to_datastore
    calls,          \* the remote calls issued by the current run, in order
    success,        \* the value main() returns for the current run
    runs,           \* number of runs started
    startState,     \* the value of resource when the current run started
    prevRun,        \* [allOk, file]: whether every earlier run succeeded with every call answered, and the file the previous run read
    rows,           \* process_csv: the input rows
    task,           \* process_csv: the state of each submitted task
    processed_rows, \* process_csv: the preallocated results list
    completed,      \* process_csv: the order in which as_completed yielded the futures
    pool_pc,        \* process_csv: "off" | "running" | "written"
    script,         \* the script that is running: "appender" | "datapump" | "catalog_updater" | "sites_updater" | "refresh" | "off"
    CKAN_API_KEY,   \* the module constant os.getenv('CKAN_API_KEY', 'CKAN_API_KEY') of the running script
    inputFile,      \* the input file of a batch loop: whether its required columns are there, and the name cell of each row
    items,          \* the list a batch loop iterates: merged_data, stats_data or repo_urls
    idx,            \* the loop index (1-based, as enumerate(..., 1) counts)
    processed_count, \* self.processed_count
    error_count,    \* self.error_count
    success_list,   \* update_all_packages: names of the packages updated
    error_list,     \* update_all_packages: names of the packages that failed
    session,        \* CKANStatsProcessor.session: the hosts the one HTTP session holds connections and cookies for
    last_fetch,     \* process_repositories_from_csv: what fetching the URL of the last loop body came to
    slept,          \* process_repositories_from_csv: the last loop body slept until the reported reset time
    procs,          \* concurrent appender runs: the position and the local variables of each process
    offset,         \* download_existing_data: the offset of the next request
    all_records,    \* download_existing_data: the records collected so far
    page_max,       \* remote catalog: the most rows datastore_search returns for one request
    total           \* remote catalog: the number of rows stored, which datastore_search reports as 'total'

vars == <<strictFormat, new_df, existing_df, fd_in, fd_out, fd_pc,
          resource, tableKey, table, extraResources, pc, csvFile, csv,
          resource_info, pending, calls, success, runs, startState, prevRun,
          rows, task, processed_rows, completed, pool_pc,
          script, CKAN_API_KEY, inputFile, items, idx, processed_count,
          error_count, success_list, error_list, session, last_fetch, slept,
          procs, offset, all_records, page_max, total>>

filterVars == <<new_df, existing_df, fd_in, fd_out, fd_pc>>
remoteVars == <<resource, tableKey, table, extraResources>>
runVars == <<pc, csvFile, csv, resource_info, pending, calls, success, runs,
             startState, prevRun>>
appenderVars == <<remoteVars, runVars>>
poolVars == <<rows, task, processed_rows, completed, pool_pc>>
countVars == <<idx, processed_count, error_count, success_list, error_list>>
loopVars == <<script, CKAN_API_KEY, inputFile, items, countVars>>
rateVars == <<last_fetch, slept>>
raceVars == <<procs>>
pageVars == <<offset, all_records, page_max, total>>

(***************************************************************************)
(* Bounds of the model.                                                    *)
(***************************************************************************)
MaxBatch == 2       \* rows in a batch
MaxExisting == 2    \* rows in the existing table handed to filter_duplicates
MaxRuns == 2        \* runs of the appender in one behaviour
MaxRows == 3        \* input rows of process_csv
MaxItems == 3       \* rows of the input file of a catalog updater
MaxUrls == 10       \* repository URLs read by the metadata refresher
MaxHalfPages == 5   \* size of a stored table that is paged through, in half requests

(***************************************************************************)
(* Cell values.                                                            *)
(***************************************************************************)
NaN == "NaN"
NaT == "NaT"

UNIQUE_COLUMNS == <<"repository_name", "tstamp">>

IdColumns == {"repository_name", "tstamp"}

RepoNames == {"a", "b"}

\* Days, written the way '%Y-%m-%d' writes them.
Dates == {"2024-01-01", "2024-01-02"}

\* strftime('%Y-%m-%dT%H:%M:%S') of a day; also the text the datastore returns
\* for a timestamp field.
IsoOf(d) == d \o "T00:00:00"

IsoTimes == {IsoOf(d) : d \in Dates}

\* Timestamp texts a CSV batch carries: a date, or an ISO 8601 date-time.
BatchTimes == Dates \cup {IsoOf("2024-01-01")}

ColumnValues(col, times) == IF col = "tstamp" THEN times ELSE RepoNames

RowsOver(cols, times) ==
    {r \in [cols -> RepoNames \cup times] :
        \A c \in cols : r[c] \in ColumnValues(c, times)}

SeqsUpTo(S, n) == UNION {[1..k -> S] : k \in 0..n}

Frame(cols, rs) == [columns |-> cols, index |-> [i \in DOMAIN rs |-> i], rows |-> rs]

\* pd.DataFrame(): no columns, no rows.
EmptyFrame == Frame({}, <<>>)

(***************************************************************************)
(* pandas conversions used by the code.                                    *)
(***************************************************************************)
\* pd.to_datetime(v, format='%Y-%m-%d', errors='coerce'): a date parses; an
\* ISO date-time parses only where the build ignores the trailing text;
\* anything else (a repository name, a missing value) is coerced to NaT.
ToDatetime(v) ==
    IF v \in Dates THEN v
    ELSE IF v \in IsoTimes
         THEN IF strictFormat THEN NaT ELSE CHOOSE d \in Dates : IsoOf(d) = v
         ELSE NaT

\* Series.dt.strftime('%Y-%m-%dT%H:%M:%S'): NaT becomes NaN.
Strftime(t) == IF t = NaT THEN NaN ELSE IsoOf(t)

\* astype(str)
AsStr(v) == IF v = NaN THEN "nan" ELSE v

RECURSIVE JoinKey(_, _)
\* new_df[unique_columns].astype(str).agg('-'.join, axis=1), for one row
JoinKey(row, cols) ==
    IF Len(cols) = 0 THEN ""
    ELSE IF Len(cols) = 1 THEN AsStr(row[cols[1]])
    ELSE AsStr(row[cols[1]]) \o "-" \o JoinKey(row, Tail(cols))

\* df.empty
Empty(df) == Len(df.rows) = 0 \/ df.columns = {}

\* df[col].dtype == 'object': a column of text cells (read from the CSV) or of
\* text and null cells (read from the datastore's JSON) is an object column.
DtypeIsObject(df, col) ==
    \A i \in DOMAIN df.rows : df.rows[i][col] \in RepoNames \cup Dates \cup IsoTimes \cup {NaN}

\* df[col] = pd.to_datetime(df[col], ...); df[col] = df[col].dt.strftime(...)
ConvertColumn(df, col) ==
    [df EXCEPT !.rows = [i \in DOMAIN df.rows |->
        [df.rows[i] EXCEPT ![col] = Strftime(ToDatetime(df.rows[i][col]))]]]

RECURSIVE NormalizeColumns(_, _)
\* the loop "for col in unique_columns" of filter_duplicates on one frame
NormalizeColumns(df, cols) ==
    IF Len(cols) = 0 THEN df
    ELSE LET col == cols[1]
             d1 == IF col \in df.columns /\ DtypeIsObject(df, col)
                   THEN ConvertColumn(df, col) ELSE df
         IN NormalizeColumns(d1, Tail(cols))

RECURSIVE Positions(_, _)
\* the positions i of 1..n with keep[i], in order
Positions(keep, n) ==
    IF n = 0 THEN <<>>
    ELSE IF keep[n] THEN Append(Positions(keep, n - 1), n) ELSE Positions(keep, n - 1)

\* df[mask].copy(): the rows where mask holds, with their index labels
SelectRows(df, mask) ==
    LET ps == Positions(mask, Len(df.rows))
    IN [columns |-> df.columns,
        index |-> [k \in DOMAIN ps |-> df.index[ps[k]]],
        rows |-> [k \in DOMAIN ps |-> df.rows[ps[k]]]]

\* filter_duplicates with the early returns taken out: both frames hold every
\* unique column and the existing frame is not empty.
CompareKeys(n_df, e_df, unique_columns) ==
    LET n == NormalizeColumns(n_df, unique_columns)
        e == NormalizeColumns(e_df, unique_columns)
        existing_keys == {JoinKey(e.rows[i], unique_columns) : i \in DOMAIN e.rows}
        mask == [i \in DOMAIN n.rows |->
                    JoinKey(n.rows[i], unique_columns) \notin existing_keys]
    IN [truly_new |-> SelectRows(n, mask),
        duplicates |-> SelectRows(n, [i \in DOMAIN mask |-> ~mask[i]]),
        new_df |-> n,
        existing_df |-> e]

\* filter_duplicates(new_df, existing_df, unique_columns): the pair it returns
\* and the two arguments as the call leaves them.
FilterDuplicates(n_df, e_df, unique_columns) ==
    IF Empty(e_df)
    THEN [truly_new |-> n_df, duplicates |-> n_df,
          new_df |-> n_df, existing_df |-> e_df]
    ELSE IF \E k \in DOMAIN unique_columns :
                \/ unique_columns[k] \notin n_df.columns
                \/ unique_columns[k] \notin e_df.columns
    THEN [truly_new |-> n_df, duplicates |-> n_df,
          new_df |-> n_df, existing_df |-> e_df]
    ELSE CompareKeys(n_df, e_df, unique_columns)

(***************************************************************************)
(* filter_duplicates as a function of its arguments: Init draws a batch    *)
(* and an existing table, FilterDuplicatesCall applies the function.       *)
(***************************************************************************)
NoCall == [new_df |-> EmptyFrame, existing_df |-> EmptyFrame]
NoResult == [truly_new |-> EmptyFrame, duplicates |-> EmptyFrame]

BatchFrames ==
    {Frame(cols, rs) : cols \in {IdColumns},
                       rs \in SeqsUpTo(RowsOver(IdColumns, BatchTimes), MaxBatch)}
    \cup {Frame({"tstamp"}, rs) : rs \in SeqsUpTo(RowsOver({"tstamp"}, Dates), MaxBatch)}

ExistingFrames ==
    {EmptyFrame}
    \cup {Frame(IdColumns, rs) :
            rs \in SeqsUpTo(RowsOver(IdColumns, BatchTimes), MaxExisting) \ {<<>>}}
    \cup {Frame({"repository_name"}, rs) :
            rs \in SeqsUpTo(RowsOver({"repository_name"}, Dates), MaxExisting) \ {<<>>}}

\* no remote table and no run of an appender: everything but the position
NoAppender ==
    /\ resource = "missing"
    /\ tableKey = FALSE
    /\ table = <<>>
    /\ extraResources = 0
    /\ csvFile = EmptyFrame
    /\ csv = EmptyFrame
    /\ resource_info = "none"
    /\ pending = NoResult
    /\ calls = <<>>
    /\ success = FALSE
    /\ runs = 0
    /\ startState = "none"
    /\ prevRun = [allOk |-> TRUE, file |-> EmptyFrame]

AppenderOff == NoAppender /\ pc = "off"

FilterOff ==
    /\ new_df = EmptyFrame
    /\ existing_df = EmptyFrame
    /\ fd_in = NoCall
    /\ fd_out = NoResult
    /\ fd_pc = "off"

NoFile == [columns_ok |-> TRUE, names |-> <<>>]

\* the placeholder os.getenv falls back to when CKAN_API_KEY is not set
Placeholder == "CKAN_API_KEY"

LoopOff ==
    /\ inputFile = NoFile
    /\ items = <<>>
    /\ idx = 0
    /\ processed_count = 0
    /\ error_count = 0
    /\ success_list = <<>>
    /\ error_list = <<>>

ScriptOff ==
    /\ script = "off"
    /\ CKAN_API_KEY = Placeholder
    /\ LoopOff

RateOff == last_fetch = "none" /\ slept = FALSE

RaceOff == procs = <<>>

PageOff == offset = 0 /\ all_records = <<>> /\ page_max = 0 /\ total = 0

PoolOff ==
    /\ session = {}
    /\ rows = <<>>
    /\ task = <<>>
    /\ processed_rows = <<>>
    /\ completed = <<>>
    /\ pool_pc = "off"

InitFilter ==
    /\ strictFormat \in BOOLEAN
    /\ new_df \in BatchFrames
    /\ existing_df \in ExistingFrames
    /\ fd_in = NoCall
    /\ fd_out = NoResult
    /\ fd_pc = "call"
    /\ AppenderOff
    /\ PoolOff
    /\ RateOff
    /\ RaceOff
    /\ PageOff
    /\ ScriptOff

FilterDuplicatesCall ==
    /\ fd_pc = "call"
    /\ LET r == FilterDuplicates(new_df, existing_df, UNIQUE_COLUMNS)
       IN /\ fd_in' = [new_df |-> new_df, existing_df |-> existing_df]
          /\ fd_out' = [truly_new |-> r.truly_new, duplicates |-> r.duplicates]
          /\ new_df' = r.new_df
          /\ existing_df' = r.existing_df
    /\ fd_pc' = "returned"
    /\ UNCHANGED <<strictFormat, session, rateVars, raceVars, pageVars,
                   appenderVars, poolVars, loopVars>>

NextFilter == FilterDuplicatesCall

SpecFilter == InitFilter /\ [][NextFilter]_vars

(***************************************************************************)
(* Properties of filter_duplicates.                                        *)
(***************************************************************************)
\* The day a timestamp text names, whichever of the two formats writes it.
Instant(v) == IF v \in IsoTimes THEN CHOOSE d \in Dates : IsoOf(d) = v ELSE v

\* The composite identity of a row: its identity columns, timestamps compared
\* as instants.
Identity(row) == [c \in DOMAIN row \cap IdColumns |-> Instant(row[c])]

Identities(df) == {Identity(df.rows[i]) : i \in DOMAIN df.rows}

Labels(df) == {df.index[i] : i \in DOMAIN df.index}

\* the same rows in the same order, timestamps compared as instants
SameRows(d1, d2) ==
    /\ Len(d1.rows) = Len(d2.rows)
    /\ \A i \in DOMAIN d1.rows : Identity(d1.rows[i]) = Identity(d2.rows[i])

Returned == fd_pc = "returned"

BothHaveIdentity ==
    /\ IdColumns \subseteq fd_in.new_df.columns
    /\ IdColumns \subseteq fd_in.existing_df.columns

\* C1: when both frames hold the identity columns, a batch row is in new_rows
\* iff no existing row has its identity, and otherwise it is in duplicate_rows.
C1_NewIffAbsent ==
    (Returned /\ BothHaveIdentity) =>
        \A i \in DOMAIN fd_in.new_df.rows :
            LET absent == Identity(fd_in.new_df.rows[i]) \notin Identities(fd_in.existing_df)
            IN /\ (fd_in.new_df.index[i] \in Labels(fd_out.truly_new)) <=> absent
               /\ ~absent => fd_in.new_df.index[i] \in Labels(fd_out.duplicates)

\* C5: when no batch identity occurs in the existing table (the empty table
\* included), new_rows is the batch and duplicate_rows is empty.
C5_DisjointAllNew ==
    (/\ Returned
     /\ \/ Len(fd_in.existing_df.rows) = 0
        \/ /\ BothHaveIdentity
           /\ Identities(fd_in.new_df) \cap Identities(fd_in.existing_df) = {})
    => /\ SameRows(fd_out.truly_new, fd_in.new_df)
       /\ Len(fd_out.duplicates.rows) = 0

\* C6: when every batch identity occurs in the existing table, new_rows is
\* empty and duplicate_rows is the batch.
C6_AllDuplicates ==
    (/\ Returned
     /\ BothHaveIdentity
     /\ Identities(fd_in.new_df) \subseteq Identities(fd_in.existing_df))
    => /\ Len(fd_out.truly_new.rows) = 0
       /\ SameRows(fd_out.duplicates, fd_in.new_df)

\* C7: no batch row is returned both in new_rows and in duplicate_rows.
C7_OutputsDisjoint ==
    Returned => Labels(fd_out.truly_new) \cap Labels(fd_out.duplicates) = {}

\* C8: the identities of new_rows and of duplicate_rows together are the
\* identities of the input batch.
C8_PartitionComplete ==
    Returned =>
        Identities(fd_out.truly_new) \cup Identities(fd_out.duplicates)
            = Identities(fd_in.new_df)

\* C14: when an identity column is missing from the batch, or from an existing
\* table that holds rows, no row is returned as new.
C14_MissingColumnFailsFast ==
    (/\ Returned
     /\ \/ ~(IdColumns \subseteq fd_in.new_df.columns)
        \/ /\ ~Empty(fd_in.existing_df)
           /\ ~(IdColumns \subseteq fd_in.existing_df.columns))
    => Len(fd_out.truly_new.rows) = 0

\* the keys were compared: neither early return was taken
KeysCompared == Returned /\ BothHaveIdentity /\ ~Empty(fd_in.existing_df)

\* the rows of both frames, each as it was passed in and as the key was
\* built from it
KeyedRows ==
    {[before |-> fd_in.new_df.rows[i], after |-> new_df.rows[i]] :
        i \in DOMAIN fd_in.new_df.rows}
    \cup {[before |-> fd_in.existing_df.rows[j], after |-> existing_df.rows[j]] :
             j \in DOMAIN fd_in.existing_df.rows}

C26_InputsUnchanged ==
    Returned =>
        /\ new_df = fd_in.new_df
        /\ existing_df = fd_in.existing_df
        /\ \A k \in DOMAIN fd_out.truly_new.rows :
              \E i \in DOMAIN fd_in.new_df.rows :
                 /\ fd_in.new_df.index[i] = fd_out.truly_new.index[k]
                 /\ fd_in.new_df.rows[i] = fd_out.truly_new.rows[k]

\* C27: when the keys are compared, two rows with different composite
\* identities never get the same key.
C27_KeyInjective ==
    KeysCompared =>
        \A r1, r2 \in KeyedRows :
            Identity(r1.before) # Identity(r2.before) =>
                JoinKey(r1.after, UNIQUE_COLUMNS) # JoinKey(r2.after, UNIQUE_COLUMNS)

(***************************************************************************)
(* The appender: main() of timeseries_append.py against the remote         *)
(* catalog.  Each action is the code from one remote call to the next; the *)
(* response of the call is the action's input.                             *)
(***************************************************************************)
\* What a remote call can answer: HTTP 200 with success=true, another HTTP
\* status, HTTP 200 with success=false, or an exception raised by requests.
Responses == {"ok", "http_error", "not_success", "exception"}

\* A write call can also be answered with HTTP 409: the records would store a
\* second row under a key that is already taken.
WriteResponses == Responses \cup {"conflict"}

\* Rows a collected CSV file holds: one observation per repository and day.
CsvRows ==
    {r \in RowsOver(IdColumns, Dates) :
        (r["repository_name"] = "a") <=> (r["tstamp"] = "2024-01-01")}

\* Contents of CSV_FILE_PATH: batches with both unique columns, and one file
\* that lacks repository_name.
CsvFiles ==
    {Frame(IdColumns, rs) : rs \in SeqsUpTo(CsvRows, MaxBatch)}
    \cup {Frame({"tstamp"}, <<[c \in {"tstamp"} |-> "2024-01-01"]>>)}

\* The records of a frame as the code sends them: tstamp converted to ISO
\* text, NaN cells dropped from the record (a dropped cell is stored as null,
\* written NaN here).
CleanRecords(df) ==
    (IF "tstamp" \in df.columns THEN ConvertColumn(df, "tstamp") ELSE df).rows

Call(api, recs, labels, key) ==
    [api |-> api, records |-> recs, index |-> labels, primary_key |-> key,
     status |-> "sent"]

\* a call with what came back: accepted, refused for a key conflict, or failed
\* in one of the three other ways
Answered(call, resp) ==
    [call EXCEPT !.status = IF resp = "ok" THEN "ok"
                            ELSE IF resp = "conflict" THEN "conflict"
                            ELSE "failed"]

Plain(api) == Call(api, <<>>, <<>>, {})

\* the body of the datastore_upsert request
DatastoreUpsertData(df) ==
    Call("datastore_upsert", CleanRecords(df), df.index, {})

\* a create request that names the unique columns as primary key
DatastoreCreateDataWithKey(df) ==
    Call("datastore_create", CleanRecords(df), df.index, IdColumns)

\* the body of the datastore_create request: fields and records, no primary_key
DatastoreCreateData(df) ==
    Call("datastore_create", CleanRecords(df), df.index, {})

\* The datastore rejects a write that would store two rows with the same
\* non-null key under a primary key.
KeyConflict(stored) ==
    \E i, j \in DOMAIN stored :
        /\ i < j
        /\ stored[i] = stored[j]
        /\ \A c \in DOMAIN stored[i] : stored[i][c] # NaN

\* every call of the current run was answered with success; the answer to the
\* delete call is ignored by the code and is left out
AllCallsOk ==
    \A i \in DOMAIN calls :
        calls[i].api # "datastore_delete" => calls[i].status = "ok"

\* what the datastore can answer to a write that would leave these rows
\* stored: never success when a key is violated, a conflict only then
Accepts(resp, key, stored) ==
    /\ resp = "ok" => ~(key /\ KeyConflict(stored))
    /\ resp = "conflict" => key /\ KeyConflict(stored)

\* an insert counted as done whenever the call came back with HTTP 200
InsertAcceptedOn200(resp) == resp \in {"ok", "not_success"}

\* an insert counted as done when the key is already taken
InsertAcceptedOrConflict(resp) == resp \in {"ok", "conflict"}

\* append_to_datastore returns True for the insert call only on HTTP 200 with
\* success=true; every other outcome returns False
InsertAccepted(resp) == resp = "ok"

\* an insert that is sent again until it is accepted
RetryInsert(resp) ==
    IF InsertAccepted(resp) THEN "update_resource_metadata" ELSE "datastore_upsert"

\* where main() goes after the insert call returned: the metadata patch when
\* append_to_datastore returned True, the failure report otherwise
AfterInsert(resp) ==
    IF InsertAccepted(resp) THEN "update_resource_metadata" ELSE "done"

\* a lookup that rebuilds the datastore of every resource it finds
AlwaysCreate(found, res) ==
    IF ~found THEN "package_show" ELSE "datastore_delete"

\* main(): the branch taken on what get_resource_info returned
AfterLookup(found, res) ==
    IF ~found THEN "package_show"
    ELSE IF res = "active" THEN "download_existing_data"
    ELSE "datastore_delete"

\* the state in which a first run of the appender starts, but for the
\* environment variable and the number of runs
AppenderStart ==
    /\ strictFormat \in BOOLEAN
    /\ resource \in {"missing", "no_datastore", "active"}
    /\ tableKey \in BOOLEAN
    /\ tableKey => resource = "active"
    /\ table = <<>>
    /\ extraResources = 0
    /\ pc = "idle"
    /\ csvFile = EmptyFrame
    /\ csv = EmptyFrame
    /\ resource_info = "none"
    /\ pending = NoResult
    /\ calls = <<>>
    /\ success = FALSE
    /\ startState = "none"
    /\ prevRun = [allOk |-> TRUE, file |-> EmptyFrame]
    /\ FilterOff
    /\ PoolOff
    /\ RateOff
    /\ RaceOff
    /\ PageOff
    /\ script = "appender"
    /\ LoopOff

\* The appender puts API_KEY in the headers of its requests and reads it
\* nowhere else; its runs are explored with the key set.
Init ==
    /\ AppenderStart
    /\ runs = 0
    /\ CKAN_API_KEY = "secret"

\* main(): read the CSV and validate the unique columns
Main_ReadCsv(f) ==
    /\ script = "appender"
    /\ pc \in {"idle", "done"}
    /\ runs < MaxRuns
    /\ runs' = runs + 1
    /\ csvFile' = f
    /\ csv' = f
    /\ calls' = <<>>
    /\ pending' = NoResult
    /\ resource_info' = "none"
    /\ startState' = resource
    /\ success' = FALSE
    /\ prevRun' = IF pc = "done"
                  THEN [allOk |-> prevRun.allOk /\ success /\ AllCallsOk,
                        file |-> csvFile]
                  ELSE prevRun
    /\ pc' = IF \E k \in DOMAIN UNIQUE_COLUMNS : UNIQUE_COLUMNS[k] \notin f.columns
             THEN "done" ELSE "get_resource_info"
    /\ UNCHANGED <<strictFormat, session, rateVars, raceVars, pageVars,
                   remoteVars, filterVars, poolVars, loopVars>>

\* get_resource_info(): package_show, then the first resource of that name
GetResourceInfo(resp) ==
    /\ pc = "get_resource_info"
    /\ calls' = Append(calls, Answered(Plain("package_show"), resp))
    /\ LET found == resp = "ok" /\ resource # "missing"
       IN /\ resource_info' = IF found THEN resource ELSE "none"
          /\ pc' = AfterLookup(found, resource)
    /\ UNCHANGED <<strictFormat, session, rateVars, raceVars, pageVars,
                   remoteVars, csvFile, csv, pending, success, runs,
                   startState, prevRun, filterVars, poolVars, loopVars>>

\* append_to_datastore(): download_existing_data, then filter_duplicates
DownloadExistingData(resp) ==
    /\ pc = "download_existing_data"
    /\ calls' = Append(calls, Answered(Plain("datastore_search"), resp))
    /\ IF resp = "exception"
       THEN /\ pc' = "done"
            /\ success' = FALSE
            /\ UNCHANGED <<csv, pending>>
       ELSE LET existing == IF resp = "ok" /\ Len(table) > 0
                            THEN Frame(IdColumns, table) ELSE EmptyFrame
                r == FilterDuplicates(csv, existing, UNIQUE_COLUMNS)
            IN /\ csv' = r.new_df
               /\ pending' = [truly_new |-> r.truly_new, duplicates |-> r.duplicates]
               /\ IF Len(r.truly_new.rows) = 0
                  THEN pc' = "update_resource_metadata" /\ success' = TRUE
                  ELSE pc' = "datastore_upsert" /\ success' = FALSE
    /\ UNCHANGED <<strictFormat, session, rateVars, raceVars, pageVars,
                   remoteVars, csvFile, resource_info, runs,
                   startState, prevRun, filterVars, poolVars, loopVars>>

\* append_to_datastore(): the insert call
DatastoreUpsert(resp) ==
    /\ pc = "datastore_upsert"
    /\ LET data == DatastoreUpsertData(pending.truly_new)
       IN /\ Accepts(resp, tableKey, table \o data.records)
          /\ calls' = Append(calls, Answered(data, resp))
          /\ table' = IF resp = "ok" THEN table \o data.records ELSE table
    /\ success' = InsertAccepted(resp)
    /\ pc' = AfterInsert(resp)
    /\ UNCHANGED <<strictFormat, session, rateVars, raceVars, pageVars,
                   resource, tableKey, extraResources, csvFile, csv,
                   resource_info, pending, runs, startState, prevRun,
                   filterVars, poolVars, loopVars>>

\* create_datastore_without_primary_key(): the delete call, its answer ignored
DatastoreDelete(resp) ==
    /\ pc = "datastore_delete"
    /\ resp = "ok" => resource = "active"
    /\ calls' = Append(calls, Answered(Plain("datastore_delete"), resp))
    /\ IF resp = "ok"
       THEN resource' = "no_datastore" /\ table' = <<>> /\ tableKey' = FALSE
       ELSE UNCHANGED <<resource, table, tableKey>>
    /\ pc' = "datastore_create"
    /\ UNCHANGED <<strictFormat, session, rateVars, raceVars, pageVars,
                   extraResources, csvFile, csv, resource_info,
                   pending, success, runs, startState, prevRun, filterVars, poolVars, loopVars>>

\* create_datastore_without_primary_key(): the create call
DatastoreCreate(resp) ==
    /\ pc = "datastore_create"
    /\ LET data == DatastoreCreateData(csv)
           stored == IF resource = "active" THEN table \o data.records
                     ELSE data.records
       IN /\ Accepts(resp, data.primary_key # {}, stored)
          /\ calls' = Append(calls, Answered(data, resp))
          /\ IF resp = "ok"
             THEN /\ resource' = "active"
                  /\ table' = stored
                  /\ tableKey' = (data.primary_key # {})
             ELSE UNCHANGED <<resource, table, tableKey>>
    /\ success' = (resp = "ok")
    /\ pc' = IF resp = "ok" THEN "update_resource_metadata" ELSE "done"
    /\ UNCHANGED <<strictFormat, session, rateVars, raceVars, pageVars,
                   extraResources, csvFile, csv, resource_info,
                   pending, runs, startState, prevRun, filterVars, poolVars, loopVars>>

\* main(), no resource_info: package_show again
PackageShow(resp) ==
    /\ pc = "package_show"
    /\ calls' = Append(calls, Answered(Plain("package_show"), resp))
    /\ pc' = IF resp = "ok" THEN "create_resource" ELSE "done"
    /\ success' = FALSE
    /\ UNCHANGED <<strictFormat, session, rateVars, raceVars, pageVars,
                   remoteVars, csvFile, csv, resource_info, pending,
                   runs, startState, prevRun, filterVars, poolVars, loopVars>>

\* create_resource_with_datastore(): datastore_create with a new resource
CreateResourceWithDatastore(resp) ==
    /\ pc = "create_resource"
    /\ LET data == DatastoreCreateData(csv)
       IN /\ Accepts(resp, data.primary_key # {}, data.records)
          /\ calls' = Append(calls, Answered(data, resp))
          /\ IF resp = "ok" /\ resource = "missing"
             THEN /\ resource' = "active"
                  /\ table' = data.records
                  /\ tableKey' = (data.primary_key # {})
                  /\ UNCHANGED extraResources
             ELSE /\ extraResources' = IF resp = "ok" THEN extraResources + 1
                                       ELSE extraResources
                  /\ UNCHANGED <<resource, table, tableKey>>
    /\ success' = (resp = "ok")
    /\ pc' = "done"
    /\ UNCHANGED <<strictFormat, session, rateVars, raceVars, pageVars,
                   csvFile, csv, resource_info, pending, runs,
                   startState, prevRun, filterVars, poolVars, loopVars>>

\* update_resource_metadata(): resource_patch, its result ignored by main()
UpdateResourceMetadata(resp) ==
    /\ pc = "update_resource_metadata"
    /\ calls' = Append(calls, Answered(Plain("resource_patch"), resp))
    /\ pc' = "done"
    /\ UNCHANGED <<strictFormat, session, rateVars, raceVars, pageVars,
                   remoteVars, csvFile, csv, resource_info, pending,
                   success, runs, startState, prevRun, filterVars, poolVars, loopVars>>

Next ==
    \/ \E f \in CsvFiles : Main_ReadCsv(f)
    \/ \E resp \in Responses : GetResourceInfo(resp)
    \/ \E resp \in Responses : DownloadExistingData(resp)
    \/ \E resp \in WriteResponses : DatastoreUpsert(resp)
    \/ \E resp \in Responses : DatastoreDelete(resp)
    \/ \E resp \in WriteResponses : DatastoreCreate(resp)
    \/ \E resp \in Responses : PackageShow(resp)
    \/ \E resp \in WriteResponses : CreateResourceWithDatastore(resp)
    \/ \E resp \in Responses : UpdateResourceMetadata(resp)

Spec == Init /\ [][Next]_vars

(***************************************************************************)
(* Properties of the appender.                                             *)
(***************************************************************************)
Done == pc = "done"

CallsOf(api) == {i \in DOMAIN calls : calls[i].api = api}

\* the call carries one record per row of the file, in order
AllRowsSent(call) ==
    /\ Len(call.records) = Len(csvFile.rows)
    /\ \A k \in DOMAIN call.records :
          Identity(call.records[k]) = Identity(csvFile.rows[k])

\* no two stored rows share a composite identity
UniqueIdentities(stored) ==
    \A i, j \in DOMAIN stored : i # j => Identity(stored[i]) # Identity(stored[j])

Absent == {"missing", "no_datastore"}

\* C2: a successful run that reads the same file as the successful run before
\* it, every remote call answered, sends no records and deletes nothing.
C2_SecondRunInsertsNothing ==
    (/\ Done /\ success /\ AllCallsOk
     /\ runs >= 2 /\ prevRun.allOk /\ prevRun.file = csvFile)
    => \A i \in DOMAIN calls :
          Len(calls[i].records) = 0 /\ calls[i].api # "datastore_delete"

\* C3: after successful runs only, no two rows of the remote table share a
\* composite identity.
C3_TableIdentitiesUnique ==
    (Done /\ success /\ prevRun.allOk) => UniqueIdentities(table)

\* C4: the insert call carries exactly the rows filter_duplicates returned as
\* new, and none of the rows it returned as duplicates.
C4_InsertSendsExactlyNew ==
    \A i \in CallsOf("datastore_upsert") :
        /\ calls[i].index = pending.truly_new.index
        /\ Len(calls[i].records) = Len(pending.truly_new.rows)
        /\ {calls[i].index[k] : k \in DOMAIN calls[i].index}
              \cap Labels(pending.duplicates) = {}

C2_Lenient == ~strictFormat => C2_SecondRunInsertsNothing

ConflictedInserts == {i \in CallsOf("datastore_upsert") : calls[i].status = "conflict"}

FailedInserts == {i \in CallsOf("datastore_upsert") : calls[i].status = "failed"}

C19_FailedInsertFailsRun ==
    \A i \in FailedInserts :
        /\ Done
        /\ ~success
        /\ CallsOf("resource_patch") = {}

\* a finished run whose insert call carried records and failed
C19_Witness ==
    /\ Done
    /\ \E i \in FailedInserts : Len(calls[i].records) >= 1

\* C20: a run whose search call failed issues no insert, does not use any
\* table contents for the duplicate check, and is not reported as successful.
C20_FailedDownloadStopsRun ==
    (\E i \in CallsOf("datastore_search") : calls[i].status = "failed") =>
        /\ CallsOf("datastore_upsert") = {}
        /\ pending = NoResult
        /\ ~success

\* C24: in a run that started on an Active table, no delete and no create
\* call is issued, and every step keeps the rows stored before it, in place
\* and unchanged.
C24_ActiveTableOnlyAppended ==
    [][startState' = "active" =>
          /\ \A i \in DOMAIN calls' :
                calls'[i].api \notin {"datastore_delete", "datastore_create"}
          /\ Len(table') >= Len(table)
          /\ SubSeq(table', 1, Len(table)) = table]_vars

\* C30: the run goes on to create a resource only after a lookup that was
\* answered and found no resource of the series, and no resource is ever
\* created beside the one the catalog already holds.
C30_NoSecondResource ==
    /\ pc = "create_resource" =>
          /\ calls[1].api = "package_show"
          /\ calls[1].status = "ok"
          /\ resource = "missing"
    /\ extraResources = 0

(***************************************************************************)
(* process_csv of the site-statistics extractor: a thread pool runs        *)
(* process_single_row on every input row; the main thread takes the        *)
(* futures as they complete and stores each result in processed_rows.      *)
(***************************************************************************)
MAX_WORKERS == 10

\* the url cell of an input row: a site, empty text, or no cell at all (a
\* short CSV line gives None)
NoUrl == "None"
Urls == {"s1", "s2", "", NoUrl}

Unset == [url |-> "unset", stats |-> "unset"]

\* get_empty_stats() merged into a copy of the row
EmptyStatsRow(row) == [url |-> row.url, stats |-> "empty"]

\* process_single_row(row): "raised" when row.get('url') is None and
\* .strip() fails; empty stats for an empty url or when get_ckan_stats
\* raised; otherwise the fetched stats.
ProcessSingleRow(row, fetch) ==
    IF row.url = NoUrl THEN "raised"
    ELSE IF row.url = "" THEN "empty"
    ELSE fetch

\* a results list filled in completion order: the next free slot
SlotByCompletion(i, order) == Len(order) + 1

\* index = future_to_index[future]: the slot a completed future is stored in
\* (0-based in the code, 1-based here)
SlotOf(i, order) == i

Running == {i \in DOMAIN task : task[i] = "running"}
Queued == {i \in DOMAIN task : task[i] = "queued"}
Collected == {completed[k] : k \in DOMAIN completed}

InitPool ==
    /\ strictFormat = FALSE
    /\ FilterOff
    /\ AppenderOff
    /\ ScriptOff
    /\ rows \in SeqsUpTo([url : Urls], MaxRows)
    /\ task = [i \in DOMAIN rows |-> "queued"]
    /\ processed_rows = [i \in DOMAIN rows |-> Unset]
    /\ completed = <<>>
    /\ pool_pc = "running"
    /\ session = {}
    /\ RateOff
    /\ RaceOff
    /\ PageOff

\* a worker thread takes the next submitted task from the executor's queue
StartTask(i) ==
    /\ pool_pc = "running"
    /\ i \in Queued
    /\ \A j \in Queued : i <= j
    /\ Cardinality(Running) < MAX_WORKERS
    /\ task' = [task EXCEPT ![i] = "running"]
    /\ UNCHANGED <<strictFormat, session, rateVars, raceVars, pageVars,
                   filterVars, appenderVars, loopVars, rows, processed_rows,
                   completed, pool_pc>>

\* self.session.get(...) in make_api_call: the session every worker uses
\* keeps a connection pool and the cookies of each host it was sent to; a row
\* without a url, or with an empty one, sends no request
SessionAfter(s, row) ==
    IF row.url \in {NoUrl, ""} THEN s ELSE s \cup {row.url}

\* process_single_row returns or raises in its worker thread
FinishTask(i, fetch) ==
    /\ pool_pc = "running"
    /\ i \in Running
    /\ task' = [task EXCEPT ![i] = ProcessSingleRow(rows[i], fetch)]
    /\ session' = SessionAfter(session, rows[i])
    /\ UNCHANGED <<strictFormat, rateVars, raceVars, pageVars, filterVars, appenderVars,
                   loopVars, rows, processed_rows, completed, pool_pc>>

\* a collector that leaves the slot of a failed task as it was
DropFailedRow(i, slot) ==
    IF task[i] = "raised"
    THEN processed_rows[slot]
    ELSE [url |-> rows[i].url, stats |-> task[i]]

\* what the collecting loop stores for future i: future.result(), or, when
\* that raises the task's exception, a copy of rows[index] with empty stats
CollectedRow(i, slot) ==
    IF task[i] = "raised"
    THEN EmptyStatsRow(rows[slot])
    ELSE [url |-> rows[i].url, stats |-> task[i]]

\* the body of "for future in as_completed(future_to_index)" for one future
CollectResult(i) ==
    /\ pool_pc = "running"
    /\ i \in DOMAIN task
    /\ task[i] \in {"fetched", "empty", "raised"}
    /\ i \notin Collected
    /\ LET slot == SlotOf(i, completed)
       IN processed_rows' = [processed_rows EXCEPT ![slot] = CollectedRow(i, slot)]
    /\ completed' = Append(completed, i)
    /\ UNCHANGED <<strictFormat, session, rateVars, raceVars, pageVars,
                   filterVars, appenderVars, loopVars, rows, task, pool_pc>>

\* the pool is drained: write the output file
WriteOutput ==
    /\ pool_pc = "running"
    /\ Collected = DOMAIN task
    /\ pool_pc' = "written"
    /\ UNCHANGED <<strictFormat, session, rateVars, raceVars, pageVars,
                   filterVars, appenderVars, loopVars, rows, task,
                   processed_rows, completed>>

NextPool ==
    \/ \E i \in 1..MaxRows : StartTask(i)
    \/ \E i \in 1..MaxRows, fetch \in {"fetched", "empty"} : FinishTask(i, fetch)
    \/ \E i \in 1..MaxRows : CollectResult(i)
    \/ WriteOutput

SpecPool == InitPool /\ [][NextPool]_vars

\* C9: whatever the order in which the tasks completed, the i-th row written
\* is the result for the i-th input row.
C9_OutputOrderIsInputOrder ==
    pool_pc = "written" =>
        \A i \in DOMAIN rows : processed_rows[i].url = rows[i].url

\* rows with different urls written after the tasks completed in an
\* order other than the input order
C9_Witness ==
    /\ pool_pc = "written"
    /\ Len(rows) >= 2
    /\ \E i, j \in DOMAIN rows : rows[i].url # rows[j].url
    /\ \E k \in DOMAIN completed : completed[k] # k

\* C21: when the pool has finished, no slot of the results list is unset, and
\* the slot of a task that failed holds that task's own row with empty
\* stats; the failure of one task does not keep the others from their slots.
C21_FailedTaskGetsEmptyStats ==
    pool_pc = "written" =>
        \A i \in DOMAIN rows :
            /\ processed_rows[i] # Unset
            /\ task[i] = "raised" => processed_rows[i] = EmptyStatsRow(rows[i])
            /\ task[i] # "raised" =>
                   processed_rows[i] = [url |-> rows[i].url, stats |-> task[i]]

\* a written pool in which one task failed before another one, which
\* fetched its stats, was collected
C21_Witness ==
    /\ pool_pc = "written"
    /\ \E k, l \in DOMAIN completed :
          /\ k < l
          /\ task[completed[k]] = "raised"
          /\ task[completed[l]] = "fetched"

\* C22: while two or more workers run, none of them changes anything the
\* others use too (the one HTTP session stays as it is), and a slot of the
\* results list, once written, is never written again.
C22_WorkersShareOnlyResults ==
    [][/\ Cardinality(Running) >= 2 => session' = session
       /\ \A i \in DOMAIN processed_rows :
             processed_rows[i] # Unset => processed_rows'[i] = processed_rows[i]]_vars

(***************************************************************************)
(* The catalog updaters: main() and update_all_packages of                 *)
(* 3updateCatalog.py (CKANMetadataUpdater) and of                          *)
(* sites-workflow/3updateSitesCatalog.py (CKANSiteStatsUpdater).  The two  *)
(* scripts differ in how they load their input and in the fields they      *)
(* patch; the loop is the same.                                            *)
(***************************************************************************)
\* values of os.getenv('CKAN_API_KEY', 'CKAN_API_KEY'): not set, set to the
\* empty text, set to a key
ApiKeys == {Placeholder, "", "secret"}

PackageNames == {"p", "q"}

\* Input files: the required columns are all there or not; the name cell of
\* each row is a package name or missing.
InputFiles ==
    [columns_ok : BOOLEAN, names : SeqsUpTo(PackageNames \cup {NaN}, MaxItems)]

\* load_stats_data: [] when a required column is missing, else one item per
\* row whose name is not NaN
LoadStatsData(file) ==
    IF ~file.columns_ok THEN <<>>
    ELSE SelectSeq(file.names, LAMBDA x : x # NaN)

\* load_and_merge_data: [] when reading a column raises, else one item per
\* metadata row whose url maps to a package name
LoadAndMergeData(file) ==
    IF ~file.columns_ok THEN <<>>
    ELSE SelectSeq(file.names, LAMBDA x : x # NaN)

\* what update_all_packages loads
LoadData(file) ==
    IF script = "sites_updater" THEN LoadStatsData(file) ELSE LoadAndMergeData(file)

\* main(): "if not CKAN_API_KEY or CKAN_API_KEY == 'CKAN_API_KEY'"
InvalidKey(key) == key = "" \/ key = Placeholder

\* test_api_connection: True when site_read answers with success, whatever
\* status user_show has; an exception in either request gives False
TestApiConnection(site_read, user_show) ==
    site_read = "ok" /\ user_show # "exception"

\* update_package_metadata / update_package_stats: True only when the lookup
\* succeeded, there is something to patch and the patch was accepted; every
\* exception is caught inside and gives False
UpdatePackage(show, valid, patch) ==
    show = "ok" /\ valid /\ patch = "ok"

\* a loop body that counts an item only when it was updated
CountSuccessOnly(c, name, ok) ==
    IF ok
    THEN [c EXCEPT !.processed_count = @ + 1, !.success_list = Append(@, name)]
    ELSE c

\* the counting in the loop body of update_all_packages
CountItem(c, name, ok) ==
    IF ok
    THEN [c EXCEPT !.processed_count = @ + 1, !.success_list = Append(@, name)]
    ELSE [c EXCEPT !.error_count = @ + 1, !.error_list = Append(@, name)]

Updaters == {"catalog_updater", "sites_updater"}

InitUpdater ==
    /\ strictFormat = FALSE
    /\ FilterOff
    /\ PoolOff
    /\ RateOff
    /\ RaceOff
    /\ PageOff
    /\ NoAppender
    /\ pc = "main"
    /\ script \in Updaters
    /\ CKAN_API_KEY \in ApiKeys
    /\ inputFile \in InputFiles
    /\ items = <<>>
    /\ idx = 0
    /\ processed_count = 0
    /\ error_count = 0
    /\ success_list = <<>>
    /\ error_list = <<>>

\* main(): the input files exist; validate the API key
Updater_Main ==
    /\ pc = "main"
    /\ script \in Updaters
    /\ pc' = IF InvalidKey(CKAN_API_KEY) THEN "done" ELSE "test_api_connection"
    /\ UNCHANGED <<strictFormat, session, rateVars, raceVars, pageVars,
                   filterVars, poolVars, remoteVars, csvFile, csv,
                   resource_info, pending, calls, success, runs, startState,
                   prevRun, loopVars>>

\* main(): updater.test_api_connection(), site_read and then user_show
Updater_TestApiConnection(site_read, user_show) ==
    /\ pc = "test_api_connection"
    /\ calls' = IF site_read = "ok"
                THEN calls \o <<Answered(Plain("site_read"), site_read),
                                Answered(Plain("user_show"), user_show)>>
                ELSE Append(calls, Answered(Plain("site_read"), site_read))
    /\ pc' = IF TestApiConnection(site_read, user_show)
             THEN "update_all_packages" ELSE "done"
    /\ UNCHANGED <<strictFormat, session, rateVars, raceVars, pageVars,
                   filterVars, poolVars, remoteVars, csvFile, csv,
                   resource_info, pending, success, runs, startState,
                   prevRun, loopVars>>

\* update_all_packages(): load the input; nothing loaded ends the run
Updater_LoadData ==
    /\ pc = "update_all_packages"
    /\ items' = LoadData(inputFile)
    /\ idx' = 1
    /\ pc' = IF Len(LoadData(inputFile)) = 0 THEN "done" ELSE "update_loop"
    /\ UNCHANGED <<strictFormat, session, rateVars, raceVars, pageVars,
                   filterVars, poolVars, remoteVars, csvFile, csv,
                   resource_info, pending, calls, success, runs, startState,
                   prevRun, script, CKAN_API_KEY, inputFile, processed_count,
                   error_count, success_list, error_list>>

\* update_all_packages(): the loop body for item idx, the summary after the
\* last item
Updater_UpdateItem(show, valid, patch) ==
    /\ pc = "update_loop"
    /\ idx <= Len(items)
    /\ calls' = IF show = "ok" /\ valid
                THEN calls \o <<Answered(Plain("package_show"), show),
                                Answered(Plain("package_patch"), patch)>>
                ELSE Append(calls, Answered(Plain("package_show"), show))
    /\ LET c == CountItem([processed_count |-> processed_count,
                           error_count |-> error_count,
                           success_list |-> success_list,
                           error_list |-> error_list],
                          items[idx], UpdatePackage(show, valid, patch))
       IN /\ processed_count' = c.processed_count
          /\ error_count' = c.error_count
          /\ success_list' = c.success_list
          /\ error_list' = c.error_list
    /\ idx' = idx + 1
    /\ pc' = IF idx = Len(items) THEN "done" ELSE "update_loop"
    /\ UNCHANGED <<strictFormat, session, rateVars, raceVars, pageVars,
                   filterVars, poolVars, remoteVars, csvFile, csv,
                   resource_info, pending, success, runs, startState,
                   prevRun, script, CKAN_API_KEY, inputFile, items>>

NextUpdater ==
    \/ Updater_Main
    \/ \E r1, r2 \in Responses : Updater_TestApiConnection(r1, r2)
    \/ Updater_LoadData
    \/ \E show, patch \in Responses, valid \in BOOLEAN :
          Updater_UpdateItem(show, valid, patch)

SpecUpdater == InitUpdater /\ [][NextUpdater]_vars

\* how many times a name occurs in a list
Occurrences(name, list) == Cardinality({k \in DOMAIN list : list[k] = name})

\* C12: in the loop of either updater every item handled so far is counted
\* once, in processed_count and the success list or in error_count and the
\* error list, whatever failed; and the run ends only after the last item.
C12_EveryItemCountedOnce ==
    (script \in Updaters /\ Len(items) > 0) =>
        /\ processed_count + error_count = idx - 1
        /\ processed_count = Len(success_list)
        /\ error_count = Len(error_list)
        /\ \A name \in PackageNames :
              Occurrences(name, success_list) + Occurrences(name, error_list)
                  = Occurrences(name, SubSeq(items, 1, idx - 1))
        /\ pc = "done" => idx = Len(items) + 1

\* a finished loop in which a package was patched after an earlier remote
\* call of the loop had failed
C12_Witness ==
    /\ script \in Updaters
    /\ pc = "done"
    /\ Len(items) >= 2
    /\ Len(error_list) >= 1
    /\ \E i, j \in DOMAIN calls :
          /\ i < j
          /\ calls[i].api \in {"package_show", "package_patch"}
          /\ calls[i].status = "failed"
          /\ calls[j].api = "package_patch"
          /\ calls[j].status = "ok"

(***************************************************************************)
(* One run of a script that needs credentials and an input file with       *)
(* required columns: the appender, or one of the catalog updaters, started *)
(* with any value of the CKAN_API_KEY environment variable.                *)
(***************************************************************************)
InitConfig ==
    \/ /\ AppenderStart
       /\ runs = MaxRuns - 1
       /\ CKAN_API_KEY \in ApiKeys
    \/ InitUpdater

NextConfig == Next \/ NextUpdater

SpecConfig == InitConfig /\ [][NextConfig]_vars

\* the file the run read lacks a column the script requires
RequiredColumnMissing ==
    \/ script = "sites_updater" /\ ~inputFile.columns_ok
    \/ /\ script = "appender"
       /\ pc # "idle"
       /\ \E k \in DOMAIN UNIQUE_COLUMNS : UNIQUE_COLUMNS[k] \notin csvFile.columns

\* C16: a run whose API key is unset, empty or the placeholder, or whose input
\* file lacks a required column, issues no remote call.
C16_ConfigErrorIssuesNoCall ==
    (InvalidKey(CKAN_API_KEY) \/ RequiredColumnMissing) => calls = <<>>

(***************************************************************************)
(* The metadata refresher: the loop of process_repositories_from_csv of    *)
(* 2refresh.py (DynamicMetadataUpdater) over the repository URLs.          *)
(***************************************************************************)
\* "if idx % 10 == 0": the rate limit is looked up after every tenth URL
RATE_CHECK_EVERY == 10

\* what happens to one URL: get_repo raised (for an exhausted quota, a
\* RateLimitExceededException, or for another reason), get_dynamic_metadata
\* returned None (it catches every exception of its fetches, that of an
\* exhausted quota too), or it returned the metadata
Fetches == {"repo_error", "repo_rate_limited", "no_metadata",
            "metadata_rate_limited", "metadata"}

\* the fetches that hit the rate limit of the source API
RateLimitedFetches == {"repo_rate_limited", "metadata_rate_limited"}

\* the inner "except Exception" around get_repo: count an error and continue
RepoFailed(fetch) == fetch \in {"repo_error", "repo_rate_limited"}

\* what get_rate_limit() does when the loop calls it: plenty of quota left,
\* fewer than 100 requests left (sleep until the reset), a
\* RateLimitExceededException handled by a second lookup and a sleep, the same
\* with the second lookup raising too, or another exception
Limits == {"plenty", "low", "rate_limited", "rate_limited_twice", "error"}

\* the rate limit is looked up for this URL
RateChecked(i, fetch) == ~RepoFailed(fetch) /\ i % RATE_CHECK_EVERY = 0

\* time.sleep(sleep_time) until the reported reset: when the lookup shows
\* fewer than 100 requests left, or in the RateLimitExceededException handler
\* once its own lookup of the reset time returned
Slept(i, fetch, limit) == RateChecked(i, fetch) /\ limit \in {"low", "rate_limited"}

\* the counters after the loop body ran for URL i
CountUrl(c, i, fetch, limit) ==
    LET counted == IF fetch = "metadata"
                   THEN [c EXCEPT !.processed_count = @ + 1]
                   ELSE [c EXCEPT !.error_count = @ + 1]
    IN IF RateChecked(i, fetch) /\ limit = "error"
       THEN [counted EXCEPT !.error_count = @ + 1]
       ELSE counted

InitRefresh ==
    /\ strictFormat = FALSE
    /\ FilterOff
    /\ PoolOff
    /\ RateOff
    /\ RaceOff
    /\ PageOff
    /\ NoAppender
    /\ pc = "url_loop"
    /\ script = "refresh"
    /\ CKAN_API_KEY = Placeholder
    /\ inputFile = NoFile
    /\ items \in UNION {[1..n -> {"u"}] : n \in 0..MaxUrls}
    /\ idx = 1
    /\ processed_count = 0
    /\ error_count = 0
    /\ success_list = <<>>
    /\ error_list = <<>>

\* the loop body for URL idx
Refresh_ProcessUrl(fetch, limit) ==
    /\ script = "refresh"
    /\ pc = "url_loop"
    /\ idx <= Len(items)
    /\ LET c == CountUrl([processed_count |-> processed_count,
                          error_count |-> error_count], idx, fetch, limit)
       IN /\ processed_count' = c.processed_count
          /\ error_count' = c.error_count
    /\ idx' = idx + 1
    /\ last_fetch' = fetch
    /\ slept' = Slept(idx, fetch, limit)
    /\ pc' = IF RateChecked(idx, fetch) /\ limit = "rate_limited_twice"
             THEN "raised"
             ELSE IF idx = Len(items) THEN "done" ELSE "url_loop"
    /\ UNCHANGED <<strictFormat, session, raceVars, pageVars, filterVars, poolVars, remoteVars, csvFile, csv,
                   resource_info, pending, calls, success, runs, startState,
                   prevRun, script, CKAN_API_KEY, inputFile, items,
                   success_list, error_list>>

\* no URL to process: the loop is over at once
Refresh_NoUrls ==
    /\ script = "refresh"
    /\ pc = "url_loop"
    /\ Len(items) = 0
    /\ pc' = "done"
    /\ UNCHANGED <<strictFormat, session, rateVars, raceVars, pageVars,
                   filterVars, poolVars, remoteVars, csvFile, csv,
                   resource_info, pending, calls, success, runs, startState,
                   prevRun, loopVars>>

NextRefresh ==
    \/ \E fetch \in Fetches, limit \in Limits : Refresh_ProcessUrl(fetch, limit)
    \/ Refresh_NoUrls

SpecRefresh == InitRefresh /\ [][NextRefresh]_vars

\* C13: when the loop over the repository URLs ends, processed_count +
\* error_count is the number of URLs.
C13_EveryUrlCountedOnce ==
    (script = "refresh" /\ pc = "done") =>
        processed_count + error_count = Len(items)

\* C23: a loop body whose repository fetch hit the rate limit sleeps until
\* the reported reset time, goes on with the loop and leaves error_count as
\* it was.
C23_RateLimitIsNotAnError ==
    [][(idx' = idx + 1 /\ last_fetch' \in RateLimitedFetches) =>
          /\ slept'
          /\ error_count' = error_count
          /\ pc' # "raised"]_vars

(***************************************************************************)
(* The sites appender: main() of sites-workflow/datapump.py against the    *)
(* remote catalog.                                                         *)
(***************************************************************************)
SiteColumns == {"url", "tstamp"}

\* rows of ckan_stats.csv: one observation per site on the day of the run
SiteRows ==
    {r \in [SiteColumns -> {"s1", "s2", "2024-01-01"}] :
        r["url"] \in {"s1", "s2"} /\ r["tstamp"] = "2024-01-01"}

SiteFiles == {Frame(SiteColumns, rs) : rs \in SeqsUpTo(SiteRows, MaxBatch)}

\* the rows of a frame without those equal to an earlier row
DistinctRecords(df) ==
    SelectRows(df, [i \in DOMAIN df.rows |->
                       \A j \in DOMAIN df.rows : j < i => df.rows[j] # df.rows[i]]).rows

\* df.to_dict(orient='records') with the NaN cells dropped: every row of the
\* file, as read
PumpRecords(df) == df.rows

\* append_to_datastore returns True only on HTTP 200 with success=true
PumpAccepted(resp) == resp = "ok"

InitPump ==
    /\ strictFormat = FALSE
    /\ FilterOff
    /\ PoolOff
    /\ RateOff
    /\ RaceOff
    /\ PageOff
    /\ resource \in {"missing", "no_datastore", "active"}
    /\ tableKey \in BOOLEAN
    /\ tableKey => resource = "active"
    /\ table = <<>>
    /\ extraResources = 0
    /\ pc = "idle"
    /\ csvFile = EmptyFrame
    /\ csv = EmptyFrame
    /\ resource_info = "none"
    /\ pending = NoResult
    /\ calls = <<>>
    /\ success = FALSE
    /\ runs = 0
    /\ startState = "none"
    /\ prevRun = [allOk |-> TRUE, file |-> EmptyFrame]
    /\ script = "datapump"
    /\ CKAN_API_KEY = "secret"
    /\ LoopOff

\* main(): the CSV file exists
Pump_Main(f) ==
    /\ script = "datapump"
    /\ pc \in {"idle", "done"}
    /\ runs < MaxRuns
    /\ runs' = runs + 1
    /\ csvFile' = f
    /\ calls' = <<>>
    /\ startState' = resource
    /\ success' = FALSE
    /\ prevRun' = IF pc = "done"
                  THEN [allOk |-> prevRun.allOk /\ success /\ AllCallsOk,
                        file |-> csvFile]
                  ELSE prevRun
    /\ pc' = "get_resource_id"
    /\ UNCHANGED <<strictFormat, session, rateVars, raceVars, pageVars,
                   remoteVars, csv, resource_info, pending,
                   filterVars, poolVars, loopVars>>

\* get_resource_id(): package_show, then the first resource of that name
Pump_GetResourceId(resp) ==
    /\ pc = "get_resource_id"
    /\ calls' = Append(calls, Answered(Plain("package_show"), resp))
    /\ pc' = IF resp = "ok" /\ resource # "missing"
             THEN "append_to_datastore" ELSE "done"
    /\ UNCHANGED <<strictFormat, session, rateVars, raceVars, pageVars,
                   remoteVars, csvFile, csv, resource_info, pending,
                   success, runs, startState, prevRun, filterVars, poolVars,
                   loopVars>>

\* append_to_datastore(): read the CSV and send all of it in one insert call
Pump_AppendToDatastore(resp) ==
    /\ pc = "append_to_datastore"
    /\ csv' = csvFile
    /\ LET data == Call("datastore_upsert", PumpRecords(csvFile), csvFile.index, {})
       IN /\ Accepts(resp, tableKey, table \o data.records)
          /\ resp = "ok" => resource = "active"
          /\ calls' = Append(calls, Answered(data, resp))
          /\ table' = IF resp = "ok" THEN table \o data.records ELSE table
    /\ success' = PumpAccepted(resp)
    /\ pc' = "done"
    /\ UNCHANGED <<strictFormat, session, rateVars, raceVars, pageVars,
                   resource, tableKey, extraResources, csvFile,
                   resource_info, pending, runs, startState, prevRun,
                   filterVars, poolVars, loopVars>>

NextPump ==
    \/ \E f \in SiteFiles : Pump_Main(f)
    \/ \E resp \in Responses : Pump_GetResourceId(resp)
    \/ \E resp \in WriteResponses : Pump_AppendToDatastore(resp)

SpecPump == InitPump /\ [][NextPump]_vars

\* the last n entries of a sequence
LastRows(seq, n) == SubSeq(seq, Len(seq) - n + 1, Len(seq))

\* C15 as claimed: a successful run of the sites appender that reads the same
\* file as the successful run before it sends no records.
C15_PumpSecondRunInsertsNothing ==
    (/\ script = "datapump"
     /\ Done /\ success /\ AllCallsOk
     /\ runs >= 2 /\ prevRun.allOk /\ prevRun.file = csvFile)
    => \A i \in DOMAIN calls : Len(calls[i].records) = 0

\* C15 as amended: the sites appender never searches the remote table; its
\* insert carries every row of the file, and after a successful run the file's
\* rows are the last rows of the table, whatever was stored before.
C15_PumpSendsEveryRow ==
    script = "datapump" =>
        /\ CallsOf("datastore_search") = {}
        /\ \A i \in CallsOf("datastore_upsert") : calls[i].records = csvFile.rows
        /\ (Done /\ success) =>
              /\ Len(table) >= Len(csvFile.rows)
              /\ LastRows(table, Len(csvFile.rows)) = csvFile.rows

\* two successful runs with the same file of rows: every row is stored twice
C15_Witness ==
    /\ script = "datapump"
    /\ Done /\ success
    /\ runs >= 2 /\ prevRun.allOk /\ prevRun.file = csvFile
    /\ Len(csvFile.rows) >= 1
    /\ Len(table) >= 2 * Len(csvFile.rows)
    /\ LastRows(table, Len(csvFile.rows)) = SubSeq(table, 1, Len(csvFile.rows))

\* the variables of main() of the appender before any run
NoRun ==
    /\ csvFile = EmptyFrame
    /\ csv = EmptyFrame
    /\ resource_info = "none"
    /\ pending = NoResult
    /\ calls = <<>>
    /\ success = FALSE
    /\ runs = 0
    /\ startState = "none"
    /\ prevRun = [allOk |-> TRUE, file |-> EmptyFrame]

(***************************************************************************)
(* download_existing_data of timeseries_append.py: the paging loop over    *)
(* datastore_search.  A stored row is its position in the table, and a     *)
(* page of records is the pair of its first and its last position; the     *)
(* variable table, which holds rows cell by cell, is not used here.        *)
(***************************************************************************)
\* batch_size = 1000: the rows asked for per request, and the step of offset
BATCH_SIZE == 1000

\* limit=100000: the loop runs while offset < limit
DOWNLOAD_LIMIT == 100000

Min(a, b) == IF a < b THEN a ELSE b

\* sizes of the stored table: empty, up to a few requests long, and one row
\* more than the loop's limit
TableSizes ==
    {0} \cup {k * (BATCH_SIZE \div 2) : k \in 1..MaxHalfPages} \cup {DOWNLOAD_LIMIT + 1}

\* the most rows the server returns for one request, whatever limit the
\* request names (the server's own maximum of rows per search): less than,
\* equal to and more than batch_size
PageMaxes == {BATCH_SIZE \div 2, BATCH_SIZE, 32 * BATCH_SIZE}

\* the records datastore_search returns for {limit, offset}: the stored rows
\* after the first offset ones, at most limit and at most page_max of them
SearchRecords(off, lim) ==
    IF off >= total THEN <<>>
    ELSE <<off + 1, Min(off + Min(lim, page_max), total)>>

RECURSIVE RecordCount(_)
\* len(all_records)
RecordCount(pages) ==
    IF Len(pages) = 0 THEN 0
    ELSE (pages[1][2] - pages[1][1] + 1) + RecordCount(Tail(pages))

\* "if len(all_records) >= total: break", after the page was added
GotAll(pages) == RecordCount(pages) >= total

InitDownload ==
    /\ strictFormat = FALSE
    /\ FilterOff
    /\ PoolOff
    /\ RateOff
    /\ RaceOff
    /\ resource = "active"
    /\ tableKey \in BOOLEAN
    /\ table = <<>>
    /\ extraResources = 0
    /\ NoRun
    /\ LoopOff
    /\ script = "appender"
    /\ CKAN_API_KEY = "secret"
    /\ pc = "download_loop"
    /\ offset = 0
    /\ all_records = <<>>
    /\ page_max \in PageMaxes
    /\ total \in TableSizes

\* one pass of "while offset < limit": the request and what follows from its
\* answer
Download_Page(resp) ==
    /\ pc = "download_loop"
    /\ offset < DOWNLOAD_LIMIT
    /\ calls' = Append(calls, Answered(Plain("datastore_search"), resp))
    /\ LET records == SearchRecords(offset, BATCH_SIZE)
       IN IF resp = "exception"
          THEN pc' = "returned_none" /\ UNCHANGED <<offset, all_records>>
          ELSE IF resp # "ok" \/ Len(records) = 0
          THEN pc' = "returned" /\ UNCHANGED <<offset, all_records>>
          ELSE /\ all_records' = Append(all_records, records)
               /\ offset' = offset + BATCH_SIZE
               /\ pc' = IF GotAll(Append(all_records, records))
                        THEN "returned" ELSE "download_loop"
    /\ UNCHANGED <<strictFormat, session, rateVars, raceVars, filterVars, poolVars,
                   loopVars, remoteVars, csvFile, csv, resource_info, pending,
                   success, runs, startState, prevRun, page_max, total>>

\* the loop condition fails: offset has reached limit
Download_LimitReached ==
    /\ pc = "download_loop"
    /\ offset >= DOWNLOAD_LIMIT
    /\ pc' = "returned"
    /\ UNCHANGED <<strictFormat, session, rateVars, raceVars, pageVars,
                   filterVars,
                   poolVars, loopVars, remoteVars, csvFile, csv, resource_info,
                   pending, calls, success, runs, startState, prevRun>>

NextDownload ==
    \/ \E resp \in Responses : Download_Page(resp)
    \/ Download_LimitReached

SpecDownload == InitDownload /\ [][NextDownload]_vars

\* the pages collected are the stored rows 1..total, each once and in order
EveryRowReturned ==
    /\ total = 0 => all_records = <<>>
    /\ total > 0 =>
          /\ Len(all_records) >= 1
          /\ all_records[1][1] = 1
          /\ all_records[Len(all_records)][2] = total
          /\ \A k \in 1..(Len(all_records) - 1) :
                all_records[k + 1][1] = all_records[k][2] + 1

\* C29: the loop ends within limit / batch_size requests, and when every
\* request was answered, the frame returned holds every stored row: none
\* skipped by the step of offset, none cut off by the limit.
C29_DownloadReturnsEveryRow ==
    /\ Len(calls) <= DOWNLOAD_LIMIT \div BATCH_SIZE
    /\ (pc = "returned" /\ AllCallsOk) => EveryRowReturned

(***************************************************************************)
(* Two runs of the appender at the same time: two processes, each in       *)
(* append_to_datastore of timeseries_append.py with its own batch, against *)
(* one Active table.  Nothing in the code takes a lock or names a key, so  *)
(* the remote calls of the two runs interleave in every order.             *)
(***************************************************************************)
Processes == {1, 2}

\* batches that hold both unique columns
RaceFiles == {f \in CsvFiles : IdColumns \subseteq f.columns}

\* main() of one process has found the resource Active and calls
\* append_to_datastore(resource_id, df)
ProcessStart(f) ==
    [pc |-> "download_existing_data", csvFile |-> f, csv |-> f,
     pending |-> NoResult, calls |-> <<>>, success |-> FALSE, early |-> FALSE]

\* no process has sent its insert call yet
NoInsertSent ==
    \A q \in Processes : procs[q].pc \in {"download_existing_data", "datastore_upsert"}

InitRace ==
    /\ strictFormat \in BOOLEAN
    /\ FilterOff
    /\ PoolOff
    /\ RateOff
    /\ PageOff
    /\ resource = "active"
    /\ tableKey \in BOOLEAN
    /\ table = <<>>
    /\ extraResources = 0
    /\ NoRun
    /\ LoopOff
    /\ script = "appender"
    /\ CKAN_API_KEY = "secret"
    /\ pc = "off"
    /\ procs \in [Processes -> {ProcessStart(f) : f \in RaceFiles}]

\* process p: download_existing_data (one page), then filter_duplicates
Race_DownloadExistingData(p, resp) ==
    /\ procs[p].pc = "download_existing_data"
    /\ LET me == procs[p]
           sent == Append(me.calls, Answered(Plain("datastore_search"), resp))
           existing == IF resp = "ok" /\ Len(table) > 0
                       THEN Frame(IdColumns, table) ELSE EmptyFrame
           r == FilterDuplicates(me.csv, existing, UNIQUE_COLUMNS)
       IN procs' = [procs EXCEPT ![p] =
             IF resp = "exception"
             THEN [me EXCEPT !.calls = sent, !.pc = "done", !.early = NoInsertSent]
             ELSE [me EXCEPT !.calls = sent,
                             !.csv = r.new_df,
                             !.pending = [truly_new |-> r.truly_new,
                                          duplicates |-> r.duplicates],
                             !.success = Len(r.truly_new.rows) = 0,
                             !.pc = IF Len(r.truly_new.rows) = 0
                                    THEN "update_resource_metadata"
                                    ELSE "datastore_upsert",
                             !.early = NoInsertSent]]
    /\ UNCHANGED <<strictFormat, session, rateVars, pageVars, filterVars, poolVars,
                   loopVars, remoteVars, runVars>>

\* process p: the insert call
Race_DatastoreUpsert(p, resp) ==
    /\ procs[p].pc = "datastore_upsert"
    /\ LET me == procs[p]
           data == DatastoreUpsertData(me.pending.truly_new)
       IN /\ Accepts(resp, tableKey, table \o data.records)
          /\ table' = IF resp = "ok" THEN table \o data.records ELSE table
          /\ procs' = [procs EXCEPT ![p] =
                [me EXCEPT !.calls = Append(me.calls, Answered(data, resp)),
                           !.success = InsertAccepted(resp),
                           !.pc = AfterInsert(resp)]]
    /\ UNCHANGED <<strictFormat, session, rateVars, pageVars, filterVars, poolVars,
                   loopVars, resource, tableKey, extraResources, runVars>>

\* process p: update_resource_metadata, its result ignored by main()
Race_UpdateResourceMetadata(p, resp) ==
    /\ procs[p].pc = "update_resource_metadata"
    /\ procs' = [procs EXCEPT ![p] =
          [procs[p] EXCEPT !.calls = Append(@, Answered(Plain("resource_patch"), resp)),
                           !.pc = "done"]]
    /\ UNCHANGED <<strictFormat, session, rateVars, pageVars, filterVars, poolVars,
                   loopVars, remoteVars, runVars>>

NextRace ==
    \/ \E p \in Processes, resp \in Responses : Race_DownloadExistingData(p, resp)
    \/ \E p \in Processes, resp \in WriteResponses : Race_DatastoreUpsert(p, resp)
    \/ \E p \in Processes, resp \in Responses : Race_UpdateResourceMetadata(p, resp)

SpecRace == InitRace /\ [][NextRace]_vars

\* both runs are over, each downloaded the table before either sent its
\* insert, each batch holds an identity once, and the batches share one
OverlappedRuns ==
    /\ \A p \in Processes :
          /\ procs[p].pc = "done"
          /\ procs[p].early
          /\ UniqueIdentities(procs[p].csvFile.rows)
    /\ Identities(procs[1].csvFile) \cap Identities(procs[2].csvFile) # {}

\* C28: after two runs with overlapping batches that both downloaded the
\* table before either inserted, no two rows of the table share a composite
\* identity.
C28_InterleavedRunsStayUnique ==
    OverlappedRuns => UniqueIdentities(table)

====
